---- MODULE Spec2Model ----
(***************************************************************************)
(* dune-stuff: the copy-on-write dense matrix container EigenDenseMatrix   *)
(* (dune/stuff/la/container/eigen-dense.hh).  Containers hold a            *)
(* std::shared_ptr to an Eigen matrix (the backend); mutating methods call *)
(* ensure_uniqueness() first, which replaces a shared backend by a private *)
(* copy.  Further down: the sparse matrix text format (stuff/matrix.hh),   *)
(* the lookups of ExtendedParameterTree (dune/stuff/common/parameter/      *)
(* tree.hh) and wraparound_array (dune/stuff/common/misc.hh), each with a  *)
(* specification of its own, and after them the matrix helpers of          *)
(* stuff/matrix.hh and la/container/pattern.hh, RestrictProlongOperatorSet *)
(* (dune/stuff/fem/restrict_prolong.hh), the loop that splits a line in    *)
(* readSparseMatrix, and the highlighting of dune/stuff/common/color.cc.   *)
(***************************************************************************)
EXTENDS Integers, FiniteSets, Sequences, TLC

(***************************************************************************)
(* Bounds of the model.                                                    *)
(***************************************************************************)
\* largest finite magnitude of the scalar type; larger results overflow to infinity
MaxVal == 3
\* largest number of rows and of columns of a matrix
MaxDim == 2
\* number of calls made in one run
MaxSteps == 3

(***************************************************************************)
(* ScalarType (double): finite values, the two infinities and NaN.         *)
(***************************************************************************)
PInf == MaxVal + 1
NInf == 0 - (MaxVal + 1)
NaN == MaxVal + 2
Finite == (0 - MaxVal)..MaxVal
Value == Finite \cup {PInf, NInf, NaN}

\* the result of an exact finite operation, overflowing to an infinity
Round(n) == IF n > MaxVal THEN PInf ELSE IF n < 0 - MaxVal THEN NInf ELSE n

\* x + y of ScalarType
Add(x, y) ==
  IF x = NaN \/ y = NaN THEN NaN
  ELSE IF x \in {PInf, NInf}
       THEN IF y \in {PInf, NInf} /\ y # x THEN NaN ELSE x
       ELSE IF y \in {PInf, NInf} THEN y ELSE Round(x + y)

Sign(x) == IF x > 0 THEN 1 ELSE IF x < 0 THEN 0 - 1 ELSE 0

\* x * y of ScalarType
Mul(x, y) ==
  IF x = NaN \/ y = NaN THEN NaN
  ELSE IF x \in {PInf, NInf} \/ y \in {PInf, NInf}
       THEN IF x = 0 \/ y = 0 THEN NaN
            ELSE IF Sign(x) * Sign(y) > 0 THEN PInf ELSE NInf
       ELSE Round(x * y)

\* FloatCmp::eq(value, ScalarType(0))
FloatCmp_eq(x, y) == x # NaN /\ y # NaN /\ x = y

(***************************************************************************)
(* BackendType: Eigen::Matrix< ScalarType, Dynamic, Dynamic >, stored      *)
(* column-major in one buffer of rows * cols scalars.                      *)
(***************************************************************************)
\* the linear position of coefficient (i, j) in the buffer
Offset(B, i, j) == i + j * B.rows

Size(B) == B.rows * B.cols

\* backend_->operator()(i, j), read
Coeff(B, i, j) == B.data[Offset(B, i, j)]

\* a store that takes the buffer for row-major
SetCoeff_rowmajor(B, i, j, v) == [B EXCEPT !.data[j + i * B.cols] = v]

\* backend_->operator()(i, j) = v
SetCoeff(B, i, j, v) == [B EXCEPT !.data[Offset(B, i, j)] = v]

setZero(rr, cc) == [rows |-> rr, cols |-> cc, data |-> [k \in 0..(rr * cc - 1) |-> 0]]

setOnes(rr, cc) == [rows |-> rr, cols |-> cc, data |-> [k \in 0..(rr * cc - 1) |-> 1]]

\* B *= alpha
ScaleBackend(B, alpha) == [B EXCEPT !.data = [k \in DOMAIN B.data |-> Mul(alpha, B.data[k])]]

\* an update that drops the factor
AxpyBackend_unscaled(B, alpha, X) ==
  [B EXCEPT !.data = [k \in DOMAIN B.data |-> Add(B.data[k], X.data[k])]]

\* B += alpha * X, coefficient by coefficient
AxpyBackend(B, alpha, X) ==
  [B EXCEPT !.data = [k \in DOMAIN B.data |-> Add(B.data[k], Mul(alpha, X.data[k]))]]

\* the (rr, cc, value) constructor's backend
FilledBackend(rr, cc, value) ==
  IF FloatCmp_eq(value, 0) THEN setZero(rr, cc) ELSE ScaleBackend(setOnes(rr, cc), value)

(***************************************************************************)
(* State.                                                                  *)
(***************************************************************************)
Instances == {"a", "b", "c"}
\* an assignment allocates the new matrix object before it releases the old one
BackendIds == 1..(Cardinality(Instances) + 1)
Null == 0
NoBackend == [rows |-> 0, cols |-> 0, data |-> << >>]

Dims == 1..MaxDim
\* the values the callers pass for entries, and for the factor alpha
Scalars == {0, 2, PInf}
Factors == {0 - 1, 0, 2, PInf}

VARIABLES
  backend_,   \* backend_[x]: the backend the container x points to, Null when x is not alive
  heap,       \* heap[k]: the matrix object k, NoBackend when not allocated
  use_count,  \* use_count[k]: the number of shared_ptr owning k
  last,       \* the last call: method, arguments, outcome, the coefficients it accessed
  steps       \* number of calls made

vars == <<backend_, heap, use_count, last, steps>>

\* The state of the other parts of the library, each with a specification of its
\* own below; the containers do not touch it.
VARIABLES
  matrix,     \* the sparse matrix writeSparseMatrix writes
  stream,     \* the text written and read: a sequence of lines
  target,     \* the sparse matrix readSparseMatrix reads into
  io,         \* the last call of writeSparseMatrix or readSparseMatrix and how it ended
  tree,       \* the keys of an ExtendedParameterTree and their values
  cout,       \* the number of warnings written to std::cout
  lookup,     \* the last lookup in the tree and what it returned
  wa,         \* the elements of a wraparound_array< T, N >
  subscript,  \* the last call of operator[] and the position it accessed
  sparse,     \* the matrix IdentityMatrix makes, setMatrixDiag sets and the pattern is compressed for
  fem,        \* the last call of one of these helpers, its arguments and what it returned
  pair_set_,  \* pair_set_ of a RestrictProlongOperatorSet
  received,   \* received[el]: the calls operator el has received, in order
  rplog,      \* the calls made on the RestrictProlongOperatorSet, in order
  tok,        \* the locals of the loop that splits a line of the text format, and where it is
  search,     \* the locals of highlightSearchString, and where it is
  templ       \* the locals of highlightTemplate, and where it is

iovars == <<matrix, stream, target, io>>
treevars == <<tree, cout, lookup>>
wrapvars == <<wa, subscript>>
femvars == <<sparse, fem>>
setvars == <<pair_set_, received, rplog>>
tokvars == <<tok>>
colorvars == <<search, templ>>
helpervars == <<femvars, setvars, tokvars, colorvars>>

\* nothing has been written or read
IdleIO == matrix = << >> /\ stream = << >> /\ target = << >> /\ io = << >>
\* no tree
IdleTree == tree = << >> /\ cout = 0 /\ lookup = << >>
\* no array
IdleWrap == wa = << >> /\ subscript = << >>

\* no helper was called
IdleFem == sparse = << >> /\ fem = << >>
IdleSet == pair_set_ = {} /\ received = << >> /\ rplog = << >>
IdleTok == tok = << >>
IdleColor == search = << >> /\ templ = << >>
IdleHelpers == IdleFem /\ IdleSet /\ IdleTok /\ IdleColor

\* what a call on a container leaves alone
OutsideContainers == <<iovars, treevars, wrapvars, helpervars>>

\* the memory: containers, matrix objects and their reference counts
Mem == [b |-> backend_, h |-> heap, u |-> use_count]

Commit(m) == backend_' = m.b /\ heap' = m.h /\ use_count' = m.u

Alive(x) == backend_[x] # Null

\* Containers are interchangeable; a new one takes the first name not in use.
Order == [a |-> 1, b |-> 2, c |-> 3]
Declared(x) == ~Alive(x) /\ \A y \in Instances : Order[y] < Order[x] => Alive(y)

\* the address a new matrix object gets
FreeId(m) == CHOOSE k \in BackendIds : m.u[k] = 0 /\ \A l \in BackendIds : m.u[l] = 0 => k <= l

\* new BackendType(B): a matrix object no shared_ptr owns yet
Alloc(m, B) == [m EXCEPT !.h[FreeId(m)] = B]

\* an assignment that leaves the old backend its owner
sp_assign_no_release(m, x, k) ==
  [b |-> [m.b EXCEPT ![x] = k],
   h |-> m.h,
   u |-> IF k = Null THEN m.u ELSE [m.u EXCEPT ![k] = @ + 1]]

\* backend_ = p for a shared_ptr p to k (Null: the container's destructor):
\* k gains an owner, the old backend loses one and is deleted with its last owner
sp_assign(m, x, k) ==
  LET old == m.b[x]
      inc == IF k = Null THEN m.u ELSE [m.u EXCEPT ![k] = @ + 1]
      dec == IF old = Null THEN inc ELSE [inc EXCEPT ![old] = @ - 1]
      h2 == IF old # Null /\ dec[old] = 0 THEN [m.h EXCEPT ![old] = NoBackend] ELSE m.h
  IN [b |-> [m.b EXCEPT ![x] = k], h |-> h2, u |-> dec]

\* backend_.unique()
unique(m, x) == m.u[m.b[x]] = 1

\* an ensure_uniqueness() that keeps a shared backend
ensure_uniqueness_skipped(m, x) == m

\* an ensure_uniqueness() whose private copy has the rows and columns exchanged
ensure_uniqueness_reshaped(m, x) ==
  IF ~unique(m, x)
  THEN LET B == m.h[m.b[x]]
       IN sp_assign(Alloc(m, [rows |-> B.cols, cols |-> B.rows, data |-> B.data]), x, FreeId(m))
  ELSE m

\* ensure_uniqueness(): a shared backend is replaced by a private copy
ensure_uniqueness(m, x) ==
  IF ~unique(m, x)
  THEN sp_assign(Alloc(m, m.h[m.b[x]]), x, FreeId(m))
  ELSE m

\* rows(), cols(), get_entry(ii, jj) of container x
rows(x) == heap[backend_[x]].rows
cols(x) == heap[backend_[x]].cols
Entry(x, ii, jj) == Coeff(heap[backend_[x]], ii, jj)
Positions(x) == (0..(rows(x) - 1)) \X (0..(cols(x) - 1))

\* has_equal_shape(other)
has_equal_shape(x, other) == rows(x) = rows(other) /\ cols(x) = cols(other)

\* whether another shared_ptr owns x's backend
Shared(x) == use_count[backend_[x]] > 1

NoCall == [op |-> "none", self |-> "a", other |-> "a", value |-> 0, out |-> "ok",
           shared |-> FALSE, alias |-> FALSE, touched |-> {}]

\* The record of a call of method op on x with the container argument o and the
\* scalar argument v (the index, for a method that takes one index): how it ended, whether x's backend was shared and was o's
\* when it was made, and the coefficients (ii, jj) it passed to
\* backend_->operator().
Call(op, x, o, v, out, t) ==
  /\ last' = [op |-> op, self |-> x, other |-> o, value |-> v, out |-> out,
              shared |-> Shared(x), alias |-> (o # x /\ backend_[o] = backend_[x]),
              touched |-> t]
  /\ steps' = steps + 1
  /\ UNCHANGED OutsideContainers

\* a call can be made: the process has not aborted
Running == steps < MaxSteps /\ last.out # "abort"

(***************************************************************************)
(* Construction, assignment, destruction.                                  *)
(***************************************************************************)
\* EigenDenseMatrix(rr, cc, value)
Construct(x, rr, cc, value) ==
  /\ Running
  /\ Declared(x)
  /\ Commit(sp_assign(Alloc(Mem, FilledBackend(rr, cc, value)), x, FreeId(Mem)))
  /\ last' = [NoCall EXCEPT !.op = "construct", !.self = x, !.value = value]
  /\ steps' = steps + 1
  /\ UNCHANGED OutsideContainers

\* EigenDenseMatrix(const ThisType& other) = default: the backend is shared
CopyConstruct(x, other) ==
  /\ Running
  /\ Declared(x) /\ Alive(other)
  /\ Commit(sp_assign(Mem, x, backend_[other]))
  /\ last' = [NoCall EXCEPT !.op = "copy_construct", !.self = x, !.other = other]
  /\ steps' = steps + 1
  /\ UNCHANGED OutsideContainers

\* EigenDenseMatrix(BackendType* backend_ptr): the container takes ownership of a
\* matrix object the caller allocated and filled
ConstructFromPtr(x, rr, cc, value) ==
  /\ Running
  /\ Declared(x)
  /\ LET backend_ptr == FreeId(Mem)
     IN Commit(sp_assign(Alloc(Mem, FilledBackend(rr, cc, value)), x, backend_ptr))
  /\ last' = [NoCall EXCEPT !.op = "construct_ptr", !.self = x, !.value = value]
  /\ steps' = steps + 1
  /\ UNCHANGED OutsideContainers

\* operator=(const BackendType& other): backend_ = std::make_shared< BackendType >(other),
\* for a matrix other of the caller
AssignBackend(x, rr, cc, value) ==
  /\ Running
  /\ Alive(x)
  /\ Commit(sp_assign(Alloc(Mem, FilledBackend(rr, cc, value)), x, FreeId(Mem)))
  /\ Call("assign_backend", x, x, value, "ok", {})

\* operator=(const ThisType& other): backend_ = other.backend_
Assign(x, other) ==
  /\ Running
  /\ Alive(x) /\ Alive(other)
  /\ Commit(sp_assign(Mem, x, backend_[other]))
  /\ Call("assign", x, other, 0, "ok", {})

\* the destructor: backend_ releases its backend
Destroy(x) ==
  /\ Running
  /\ Alive(x)
  /\ Commit(sp_assign(Mem, x, Null))
  /\ Call("destroy", x, x, 0, "ok", {})

\* y = x.copy(): ThisType(*backend_), a container on a new BackendType(other)
copy(x, y) ==
  /\ Running
  /\ Alive(x) /\ Declared(y)
  /\ Commit(sp_assign(Alloc(Mem, heap[backend_[x]]), y, FreeId(Mem)))
  /\ Call("copy", x, y, 0, "ok", {})

\* a backend() that returns *backend_ as it is
backend_shared(x) ==
  /\ Running
  /\ Alive(x)
  /\ UNCHANGED <<backend_, heap, use_count>>
  /\ Call("backend", x, x, 0, "ok", {})

\* backend(), const or not: ensure_uniqueness(), then *backend_
backend(x) ==
  /\ Running
  /\ Alive(x)
  /\ Commit(ensure_uniqueness(Mem, x))
  /\ Call("backend", x, x, 0, "ok", {})

\* data(): backend_->data(), the address of the buffer of the backend as it is
data(x) == backend_[x]

\* x.data()[k] = value, by a caller that stays inside the buffer
data_write(x, k, value) ==
  /\ Running
  /\ Alive(x)
  /\ k < Size(heap[data(x)])
  /\ Commit([Mem EXCEPT !.h[data(x)].data[k] = value])
  /\ Call("data_write", x, x, value, "ok", {})

(***************************************************************************)
(* ContainerInterface: scal, axpy.                                         *)
(***************************************************************************)
\* scal(alpha): backend() *= alpha
scal(x, alpha) ==
  /\ Running
  /\ Alive(x)
  /\ LET m == ensure_uniqueness(Mem, x)
     IN Commit([m EXCEPT !.h[m.b[x]] = ScaleBackend(@, alpha)])
  /\ Call("scal", x, x, alpha, "ok", {})

\* an axpy that calls backend() before it compares the shapes
axpy_unique_first(x, alpha, xx) ==
  /\ Running
  /\ Alive(x) /\ Alive(xx)
  /\ LET xx_ref == backend_[xx]
         m == ensure_uniqueness(Mem, x)
     IN IF ~has_equal_shape(x, xx)
        THEN /\ Commit(m)
             /\ Call("axpy", x, xx, alpha, "shapes_do_not_match", {})
        ELSE /\ Commit([m EXCEPT !.h[m.b[x]] = AxpyBackend(@, alpha, m.h[xx_ref])])
             /\ Call("axpy", x, xx, alpha, "ok", {})

\* axpy(alpha, xx): xx_ref is bound to *(xx.backend_) before backend() is called
axpy(x, alpha, xx) ==
  /\ Running
  /\ Alive(x) /\ Alive(xx)
  /\ IF ~has_equal_shape(x, xx)
     THEN /\ UNCHANGED <<backend_, heap, use_count>>
          /\ Call("axpy", x, xx, alpha, "shapes_do_not_match", {})
     ELSE /\ LET xx_ref == backend_[xx]
                 m == ensure_uniqueness(Mem, x)
             IN Commit([m EXCEPT !.h[m.b[x]] = AxpyBackend(@, alpha, m.h[xx_ref])])
          /\ Call("axpy", x, xx, alpha, "ok", {})

(***************************************************************************)
(* MatrixInterface: entries.  assert(ii < rows()), assert(jj < cols())     *)
(* end the process when they fail.                                         *)
(***************************************************************************)
\* add_to_entry(ii, jj, value): backend()(ii, jj) += value
add_to_entry(x, ii, jj, value) ==
  /\ Running
  /\ Alive(x)
  /\ IF ~(ii < rows(x) /\ jj < cols(x))
     THEN /\ UNCHANGED <<backend_, heap, use_count>>
          /\ Call("add_to_entry", x, x, value, "abort", {})
     ELSE /\ LET m == ensure_uniqueness(Mem, x)
             IN Commit([m EXCEPT !.h[m.b[x]] = SetCoeff(@, ii, jj, Add(Coeff(@, ii, jj), value))])
          /\ Call("add_to_entry", x, x, value, "ok", {<<ii, jj>>})

\* set_entry(ii, jj, value): backend()(ii, jj) = value
set_entry(x, ii, jj, value) ==
  /\ Running
  /\ Alive(x)
  /\ IF ~(ii < rows(x) /\ jj < cols(x))
     THEN /\ UNCHANGED <<backend_, heap, use_count>>
          /\ Call("set_entry", x, x, value, "abort", {})
     ELSE /\ LET m == ensure_uniqueness(Mem, x)
             IN Commit([m EXCEPT !.h[m.b[x]] = SetCoeff(@, ii, jj, value)])
          /\ Call("set_entry", x, x, value, "ok", {<<ii, jj>>})

\* get_entry(ii, jj): backend_->operator()(ii, jj); the value returned is recorded
get_entry(x, ii, jj) ==
  /\ Running
  /\ Alive(x)
  /\ UNCHANGED <<backend_, heap, use_count>>
  /\ IF ~(ii < rows(x) /\ jj < cols(x))
     THEN Call("get_entry", x, x, 0, "abort", {})
     ELSE Call("get_entry", x, x, 0, "ok", {<<ii, jj>>})

\* the coefficients of row ii, of column jj
RowOf(B, ii) == {<<ii, jj>> : jj \in 0..(B.cols - 1)}
ColOf(B, jj) == {<<ii, jj>> : ii \in 0..(B.rows - 1)}

\* a loop that clears every row
ZeroRow_all(B, ii) == [B EXCEPT !.data = [k \in DOMAIN B.data |-> 0]]

\* for (jj < cols()) backend_->operator()(ii, jj) = 0
ZeroRow(B, ii) ==
  [B EXCEPT !.data = [k \in DOMAIN B.data |->
                        IF \E jj \in 0..(B.cols - 1) : k = Offset(B, ii, jj) THEN 0 ELSE B.data[k]]]

\* for (ii < rows()) backend_->operator()(ii, jj) = 0
ZeroCol(B, jj) ==
  [B EXCEPT !.data = [k \in DOMAIN B.data |->
                        IF \E ii \in 0..(B.rows - 1) : k = Offset(B, ii, jj) THEN 0 ELSE B.data[k]]]

\* a clear_row that makes the backend private before it checks ii
clear_row_unique_first(x, ii) ==
  /\ Running
  /\ Alive(x)
  /\ LET m == ensure_uniqueness(Mem, x)
     IN IF ii >= rows(x)
        THEN /\ Commit(m)
             /\ Call("clear_row", x, x, ii, "index_out_of_range", {})
        ELSE /\ Commit([m EXCEPT !.h[m.b[x]] = ZeroRow(@, ii)])
             /\ Call("clear_row", x, x, ii, "ok", RowOf(heap[backend_[x]], ii))

\* clear_row(ii)
clear_row(x, ii) ==
  /\ Running
  /\ Alive(x)
  /\ IF ii >= rows(x)
     THEN /\ UNCHANGED <<backend_, heap, use_count>>
          /\ Call("clear_row", x, x, ii, "index_out_of_range", {})
     ELSE /\ LET m == ensure_uniqueness(Mem, x)
             IN Commit([m EXCEPT !.h[m.b[x]] = ZeroRow(@, ii)])
          /\ Call("clear_row", x, x, ii, "ok", RowOf(heap[backend_[x]], ii))

\* clear_col(jj)
clear_col(x, jj) ==
  /\ Running
  /\ Alive(x)
  /\ IF jj >= cols(x)
     THEN /\ UNCHANGED <<backend_, heap, use_count>>
          /\ Call("clear_col", x, x, jj, "index_out_of_range", {})
     ELSE /\ LET m == ensure_uniqueness(Mem, x)
             IN Commit([m EXCEPT !.h[m.b[x]] = ZeroCol(@, jj)])
          /\ Call("clear_col", x, x, jj, "ok", ColOf(heap[backend_[x]], jj))

\* The memories an unchecked store of v at linear position off of the buffer of
\* matrix object k can leave: inside the buffer the scalar at off is overwritten;
\* past its end the store hits memory next to the buffer, which is the buffer of
\* another matrix object or memory no container reads.
UncheckedStore(m, k, off, v) ==
  IF off < Size(m.h[k])
  THEN {[m EXCEPT !.h[k].data[off] = v]}
  ELSE {m} \cup {[m EXCEPT !.h[k2].data[p] = v] :
                   <<k2, p>> \in {q \in BackendIds \X (0..(MaxDim * MaxDim - 1)) :
                                    q[1] # k /\ m.u[q[1]] > 0 /\ q[2] < Size(m.h[q[1]])}}

\* unit_row(ii): only ii < rows() is checked before (ii, ii) is written.  For
\* ii >= cols() Eigen's operator() either stops the process (eigen_assert) or,
\* in a build without assertions, stores at the position computed for (ii, ii).
unit_row(x, ii) ==
  /\ Running
  /\ Alive(x)
  /\ IF ii >= rows(x)
     THEN /\ UNCHANGED <<backend_, heap, use_count>>
          /\ Call("unit_row", x, x, ii, "index_out_of_range", {})
     ELSE LET m == ensure_uniqueness(Mem, x)
              k == m.b[x]
              B == ZeroRow(m.h[k], ii)
              mz == [m EXCEPT !.h[k] = B]
          IN IF ii < B.cols
             THEN /\ Commit([m EXCEPT !.h[k] = SetCoeff(B, ii, ii, 1)])
                  /\ Call("unit_row", x, x, ii, "ok", RowOf(B, ii) \cup {<<ii, ii>>})
             ELSE \/ /\ Commit(mz)
                     /\ Call("unit_row", x, x, ii, "abort", RowOf(B, ii))
                  \/ /\ \E m2 \in UncheckedStore(mz, k, Offset(B, ii, ii), 1) : Commit(m2)
                     /\ Call("unit_row", x, x, ii, "ok", RowOf(B, ii) \cup {<<ii, ii>>})

\* unit_col(jj): only jj < cols() is checked before (jj, jj) is written
unit_col(x, jj) ==
  /\ Running
  /\ Alive(x)
  /\ IF jj >= cols(x)
     THEN /\ UNCHANGED <<backend_, heap, use_count>>
          /\ Call("unit_col", x, x, jj, "index_out_of_range", {})
     ELSE LET m == ensure_uniqueness(Mem, x)
              k == m.b[x]
              B == ZeroCol(m.h[k], jj)
              mz == [m EXCEPT !.h[k] = B]
          IN IF jj < B.rows
             THEN /\ Commit([m EXCEPT !.h[k] = SetCoeff(B, jj, jj, 1)])
                  /\ Call("unit_col", x, x, jj, "ok", ColOf(B, jj) \cup {<<jj, jj>>})
             ELSE \/ /\ Commit(mz)
                     /\ Call("unit_col", x, x, jj, "abort", ColOf(B, jj))
                  \/ /\ \E m2 \in UncheckedStore(mz, k, Offset(B, jj, jj), 1) : Commit(m2)
                     /\ Call("unit_col", x, x, jj, "ok", ColOf(B, jj) \cup {<<jj, jj>>})

Init ==
  /\ \E rr \in Dims, cc \in Dims, value \in Scalars :
       LET m0 == [b |-> [x \in Instances |-> Null],
                  h |-> [k \in BackendIds |-> NoBackend],
                  u |-> [k \in BackendIds |-> 0]]
           m1 == sp_assign(Alloc(m0, FilledBackend(rr, cc, value)), "a", FreeId(m0))
       IN backend_ = m1.b /\ heap = m1.h /\ use_count = m1.u
  /\ last = NoCall
  /\ steps = 0
  /\ IdleIO /\ IdleTree /\ IdleWrap /\ IdleHelpers

\* the indices the callers pass: the valid ones and one past the last
Indices == 0..MaxDim

Next ==
  \/ \E x \in Instances, rr \in Dims, cc \in Dims, value \in Scalars : Construct(x, rr, cc, value)
  \/ \E x \in Instances, other \in Instances : CopyConstruct(x, other)
  \/ \E x \in Instances, rr \in Dims, cc \in Dims, value \in Scalars : ConstructFromPtr(x, rr, cc, value)
  \/ \E x \in Instances, other \in Instances : Assign(x, other)
  \/ \E x \in Instances, rr \in Dims, cc \in Dims, value \in Scalars : AssignBackend(x, rr, cc, value)
  \/ \E x \in Instances : Destroy(x)
  \/ \E x \in Instances, y \in Instances : copy(x, y)
  \/ \E x \in Instances : backend(x)
  \/ \E x \in Instances, k \in 0..(MaxDim * MaxDim - 1), value \in Scalars : data_write(x, k, value)
  \/ \E x \in Instances, alpha \in Factors : scal(x, alpha)
  \/ \E x \in Instances, alpha \in Factors, xx \in Instances : axpy(x, alpha, xx)
  \/ \E x \in Instances, ii \in Indices, jj \in Indices, value \in Scalars : add_to_entry(x, ii, jj, value)
  \/ \E x \in Instances, ii \in Indices, jj \in Indices, value \in Scalars : set_entry(x, ii, jj, value)
  \/ \E x \in Instances, ii \in Indices, jj \in Indices : get_entry(x, ii, jj)
  \/ \E x \in Instances, ii \in Indices : clear_row(x, ii)
  \/ \E x \in Instances, jj \in Indices : clear_col(x, jj)
  \/ \E x \in Instances, ii \in Indices : unit_row(x, ii)
  \/ \E x \in Instances, jj \in Indices : unit_col(x, jj)

Spec == Init /\ [][Next]_vars

(***************************************************************************)
(* Properties.  A step of the specification is one call; last' describes   *)
(* the call of the step.                                                   *)
(***************************************************************************)
\* the methods that change entries
Mutators == {"set_entry", "add_to_entry", "scal", "axpy",
             "clear_row", "clear_col", "unit_row", "unit_col"}

\* what get_entry reads from y is the same after the step as before it
Kept(y) == Alive(y) => heap'[backend_'[y]] = heap[backend_[y]]

\* C1: when containers share one backend, a call of set_entry, add_to_entry,
\* scal, axpy, clear_row, clear_col, unit_row or unit_col on one of them leaves
\* the entries get_entry reads from each of the others as they were.
C1_MutationStaysPrivate ==
  [][last'.op \in Mutators =>
       \A y \in Instances \ {last'.self} : backend_[y] = backend_[last'.self] => Kept(y)]_vars

\* C2: copy() gives a container with the shape and entries of the source whose
\* backend no other container holds, and the mutation of the copy or of the
\* source that follows leaves the entries of the other of the two unchanged.
C2_CopyIsIndependent ==
  [][/\ last'.op = "copy" =>
          /\ heap'[backend_'[last'.other]] = heap[backend_[last'.self]]
          /\ use_count'[backend_'[last'.other]] = 1
          /\ \A y \in Instances \ {last'.other} : backend_'[y] # backend_'[last'.other]
     /\ (last.op = "copy" /\ last'.op \in Mutators) =>
          /\ last'.self = last.other => Kept(last.self)
          /\ last'.self = last.self => Kept(last.other)]_vars

\* C3: after b = a, a write through the pointer b.data() returns changes no
\* entry get_entry reads from a.
C3_RawWriteStaysPrivate ==
  [][last'.op = "data_write" =>
       \A y \in Instances \ {last'.self} : backend_[y] = backend_[last'.self] => Kept(y)]_vars

\* Every coefficient the call of the step accessed lies in the shape.
InShape == \A p \in last'.touched : p[1] < rows(last'.self) /\ p[2] < cols(last'.self)

\* Copy-on-write as far as the accesses stay in the shape: a mutating call that
\* accesses in-shape coefficients only leaves every other container's entries
\* as they were.
InShapeMutationStaysPrivate ==
  [][(last'.op \in Mutators /\ InShape) => \A y \in Instances \ {last'.self} : Kept(y)]_vars

\* C4: every coefficient (i, j) an entry method passes to the backend has
\* i < rows and j < cols.
C4_AccessInShape ==
  \A p \in last.touched : p[1] < rows(last.self) /\ p[2] < cols(last.self)

\* the state after the step: x's backend, its entry (ii, jj)
BackendAfter(x) == heap'[backend_'[x]]
EntryAfter(x, ii, jj) == Coeff(heap'[backend_'[x]], ii, jj)
SameShapeAfter(x) == BackendAfter(x).rows = rows(x) /\ BackendAfter(x).cols = cols(x)
\* the coefficient an entry method was called for
Touched == CHOOSE p \in last'.touched : TRUE

\* C5: set_entry(i, j, v) with i < rows, j < cols makes get_entry(i, j) return v
\* and leaves every other entry and the shape of the container as they were; a
\* container constructed with value 0 reads 0 everywhere.
C5_SetEntryFrame ==
  [][/\ (last'.op = "set_entry" /\ last'.out = "ok") =>
          LET x == last'.self
          IN /\ SameShapeAfter(x)
             /\ EntryAfter(x, Touched[1], Touched[2]) = last'.value
             /\ \A q \in Positions(x) \ {Touched} : EntryAfter(x, q[1], q[2]) = Entry(x, q[1], q[2])
     /\ (last'.op = "construct" /\ last'.value = 0) =>
          \A k \in DOMAIN BackendAfter(last'.self).data : BackendAfter(last'.self).data[k] = 0]_vars

\* set_entry has stored a non-zero value in a matrix that holds another non-zero entry
C5_Witness ==
  /\ last.op = "set_entry" /\ last.out = "ok" /\ last.value = 2
  /\ \E q \in Positions(last.self) : q \notin last.touched /\ Entry(last.self, q[1], q[2]) = PInf

\* C6: scal(alpha) replaces every entry e of the container by alpha * e and leaves
\* it the only holder of its backend; when the backend was shared the container
\* gets a new backend and the other containers keep the old one, unscaled.
C6_ScalPrivate ==
  [][last'.op = "scal" =>
       LET x == last'.self
       IN /\ SameShapeAfter(x)
          /\ \A q \in Positions(x) :
               EntryAfter(x, q[1], q[2]) = Mul(last'.value, Entry(x, q[1], q[2]))
          /\ use_count'[backend_'[x]] = 1
          /\ Shared(x) =>
               /\ backend_'[x] # backend_[x]
               /\ \A y \in Instances \ {x} : backend_'[y] = backend_[y] /\ Kept(y)]_vars

\* scal(2) was called on a container whose backend was shared; it now holds a 2 * 2
\* that overflowed and the other holder still reads 2
C6_Witness ==
  /\ last.op = "scal" /\ last.out = "ok" /\ last.shared /\ last.value = 2
  /\ \E y \in Instances \ {last.self} :
       /\ Alive(y) /\ backend_[y] # backend_[last.self]
       /\ \E q \in Positions(y) : Entry(y, q[1], q[2]) = 2 /\ Entry(last.self, q[1], q[2]) = PInf

\* C7: a.axpy(alpha, xx) with equal shapes leaves a(i,j) = a_old(i,j) + alpha *
\* xx_old(i,j) everywhere and leaves xx's entries unchanged, also when xx shares
\* a's backend and when xx is a.
C7_Axpy ==
  [][(last'.op = "axpy" /\ last'.out = "ok") =>
       LET x == last'.self
           xx == last'.other
       IN /\ SameShapeAfter(x)
          /\ \A q \in Positions(x) :
               EntryAfter(x, q[1], q[2]) =
                 Add(Entry(x, q[1], q[2]), Mul(last'.value, Entry(xx, q[1], q[2])))
          /\ xx # x => Kept(xx)]_vars

\* axpy(2, xx) was called with xx sharing the backend of the container, whose
\* entries were not all zero
C7_Witness ==
  /\ last.op = "axpy" /\ last.out = "ok" /\ last.alias /\ last.value = 2
  /\ \E q \in Positions(last.other) : Entry(last.other, q[1], q[2]) \notin {0, NaN}

\* C8 as stated: a.axpy(0, b) leaves every entry of a as it was, for every b of
\* a's shape.
C8_AxpyZeroAnyB ==
  [][(last'.op = "axpy" /\ last'.out = "ok" /\ last'.value = 0) =>
       BackendAfter(last'.self) = heap[backend_[last'.self]]]_vars

\* whether every entry of x is finite
AllFinite(x) == \A k \in DOMAIN heap[backend_[x]].data : heap[backend_[x]].data[k] \in Finite

\* C8, amended: a.axpy(0, b) leaves every entry of a as it was, for every b of
\* a's shape whose entries are all finite.
C8_AxpyZeroFiniteB ==
  [][(last'.op = "axpy" /\ last'.out = "ok" /\ last'.value = 0 /\ AllFinite(last'.other)) =>
       BackendAfter(last'.self) = heap[backend_[last'.self]]]_vars

\* axpy(0, b) was called with another container b of finite non-zero entries on a
\* container with a non-zero entry
C8_Witness ==
  /\ last.op = "axpy" /\ last.out = "ok" /\ last.value = 0
  /\ last.other # last.self /\ backend_[last.other] # backend_[last.self]
  /\ AllFinite(last.other)
  /\ \E q \in Positions(last.other) :
       Entry(last.other, q[1], q[2]) # 0 /\ Entry(last.self, q[1], q[2]) # 0

\* C9: axpy with an xx of another shape raises shapes_do_not_match and changes
\* nothing: entries, shapes and the sharing of backends are as before the call.
C9_AxpyShapeMismatch ==
  [][(last'.op = "axpy" /\ ~has_equal_shape(last'.self, last'.other)) =>
       /\ last'.out = "shapes_do_not_match"
       /\ UNCHANGED <<backend_, heap, use_count>>]_vars

\* axpy was refused for a container whose backend is shared
C9_Witness ==
  /\ last.op = "axpy" /\ last.out = "shapes_do_not_match" /\ last.shared
  /\ Shared(last.self)
  /\ ~has_equal_shape(last.self, last.other)

\* C10: on an N x N matrix unit_row(i) leaves row i zero except for a 1 at
\* (i, i) and every other row unchanged; unit_col(j) leaves column j zero except
\* for a 1 at (j, j) and every other column unchanged.
C10_UnitRowCol ==
  [][/\ (last'.op = "unit_row" /\ last'.out = "ok" /\ rows(last'.self) = cols(last'.self)) =>
          LET x == last'.self
              i == Touched[1]
          IN /\ SameShapeAfter(x)
             /\ \A q \in Positions(x) :
                  EntryAfter(x, q[1], q[2]) =
                    IF q[1] # i THEN Entry(x, q[1], q[2]) ELSE IF q[2] = i THEN 1 ELSE 0
     /\ (last'.op = "unit_col" /\ last'.out = "ok" /\ rows(last'.self) = cols(last'.self)) =>
          LET x == last'.self
              j == Touched[2]
          IN /\ SameShapeAfter(x)
             /\ \A q \in Positions(x) :
                  EntryAfter(x, q[1], q[2]) =
                    IF q[2] # j THEN Entry(x, q[1], q[2]) ELSE IF q[1] = j THEN 1 ELSE 0]_vars

\* unit_row(1) was called on a 2 x 2 matrix whose row 0 holds non-zero entries
C10_Witness ==
  /\ last.op = "unit_row" /\ last.out = "ok"
  /\ rows(last.self) = 2 /\ cols(last.self) = 2
  /\ <<1, 1>> \in last.touched
  /\ Entry(last.self, 0, 0) = 2 /\ Entry(last.self, 0, 1) = PInf
  /\ Entry(last.self, 1, 0) = 0 /\ Entry(last.self, 1, 1) = 1
\* C11: clear_row(ii) and unit_row(ii) with ii >= rows(), and clear_col(jj) and
\* unit_col(jj) with jj >= cols(), raise index_out_of_range and change nothing:
\* every entry is as before and a shared backend is still shared.
C11_IndexOutOfRange ==
  [][(\/ last'.op \in {"clear_row", "unit_row"} /\ last'.value >= rows(last'.self)
      \/ last'.op \in {"clear_col", "unit_col"} /\ last'.value >= cols(last'.self)) =>
       /\ last'.out = "index_out_of_range"
       /\ UNCHANGED <<backend_, heap, use_count>>]_vars

\* unit_row(rows()) was refused for a container with a non-zero entry whose backend
\* is shared
C11_Witness ==
  /\ last.op = "unit_row" /\ last.out = "index_out_of_range"
  /\ last.value = rows(last.self)
  /\ last.shared /\ Shared(last.self)
  /\ \E q \in Positions(last.self) : Entry(last.self, q[1], q[2]) # 0

\* the calls that give a container another backend object on purpose
Reshaping == {"assign", "assign_backend"}

Holders(k) == {x \in Instances : backend_[x] = k}

ReadOnly ==
  \/ last'.op \in {"get_entry", "copy"}
  \/ last'.op = "axpy" /\ last'.out = "shapes_do_not_match"
  \/ last'.out = "index_out_of_range"

MaxMag == 15
\* number of significant digits the text of a value keeps
SigDigits == 1
\* largest number of rows and of columns of a sparse matrix
MaxIODim == 2
\* largest number of fields of a line that was not written by writeSparseMatrix
MaxFields == 4
\* largest number of entries of a matrix that is written
MaxNonZeros == 3

\* the containers when no container exists
IdleContainers ==
  /\ backend_ = [x \in Instances |-> Null]
  /\ heap = [k \in BackendIds |-> NoBackend]
  /\ use_count = [k \in BackendIds |-> 0]
  /\ last = NoCall
  /\ steps = 0

\* what a call of writeSparseMatrix or readSparseMatrix leaves alone
OutsideIO == <<vars, treevars, wrapvars, helpervars>>

\* double: the finite values and infinity
Infinity == MaxMag + 1
Abs(v) == IF v < 0 THEN 0 - v ELSE v

RECURSIVE Pow10(_)
Pow10(n) == IF n = 0 THEN 1 ELSE 10 * Pow10(n - 1)

RECURSIVE NumDigits(_)
NumDigits(a) == IF a < 10 THEN 1 ELSE 1 + NumDigits(a \div 10)

\* the number of digits of v the text drops
Dropped(v) == IF NumDigits(Abs(v)) > SigDigits THEN NumDigits(Abs(v)) - SigDigits ELSE 0

\* a / d rounded to the nearest integer, a tie to the even one
RoundHalfEven(a, d) ==
  LET q == a \div d
      r == a % d
  IN IF 2 * r > d \/ (2 * r = d /\ q % 2 = 1) THEN q + 1 ELSE q

\* The characters of a line: the comma, and the numerals.  A numeral stands for
\* the run of characters operator<< writes for one number: m * 10^e.
Comma == [k |-> ",", m |-> 0, e |-> 0]

\* out << i, for an int
Decimal(i) == [k |-> "int", m |-> i, e |-> 0]

\* out << v with precision and scientific set, for a double: "inf" for infinity
Scientific(v) ==
  IF v = Infinity
  THEN [k |-> "inf", m |-> 0, e |-> 0]
  ELSE LET e == Dropped(v)
           m == RoundHalfEven(Abs(v), Pow10(e))
       IN [k |-> "num", m |-> IF v < 0 THEN 0 - m ELSE m, e |-> e]

\* an extraction that drops the exponent
Extract_mantissa(subs) ==
  IF subs = << >> \/ Head(subs).k \notin {"int", "num"} THEN 0 ELSE Head(subs).m

\* in >> temp for std::istringstream in(subs): the number the text starts with;
\* the extraction fails on an empty text and on "inf" and stores 0
Extract(subs) ==
  IF subs = << >> \/ Head(subs).k \notin {"int", "num"}
  THEN 0
  ELSE Head(subs).m * Pow10(Head(subs).e)

(***************************************************************************)
(* SparseMatrixImpl: the positions find() reports and their values.        *)
(***************************************************************************)
SparsePositions(rr, cc) == (0..(rr - 1)) \X (0..(cc - 1))

EmptySparse(rr, cc) ==
  [rows |-> rr, cols |-> cc, found |-> {}, val |-> [p \in SparsePositions(rr, cc) |-> 0]]

\* matrix.find(i, j)
find(M, i, j) == <<i, j>> \in M.found

\* matrix.clear()
clear(M) == EmptySparse(M.rows, M.cols)

\* an add that replaces the value of the entry
add_assign(M, row, col, value) ==
  [M EXCEPT !.found = @ \cup {<<row, col>>}, !.val[<<row, col>>] = value]

\* matrix.add(row, col, value) for a position of the matrix
add(M, row, col, value) ==
  [M EXCEPT !.found = @ \cup {<<row, col>>}, !.val[<<row, col>>] = @ + value]

\* out << i << "," << j << "," << matrix(i,j) << std::endl
WrittenLine(M, i, j) ==
  <<Decimal(i), Comma, Decimal(j), Comma, Scientific(M.val[<<i, j>>])>>

\* loops with the column as the outer one
RECURSIVE WriteLoop_colmajor(_, _, _)
WriteLoop_colmajor(M, i, j) ==
  IF j = M.cols THEN << >>
  ELSE IF i = M.rows THEN WriteLoop_colmajor(M, 0, j + 1)
  ELSE (IF find(M, i, j) THEN <<WrittenLine(M, i, j)>> ELSE << >>)
         \o WriteLoop_colmajor(M, i + 1, j)

\* for (i != nRows) for (j != nCols) if (matrix.find(i,j)) ...: the lines written
\* from (i, j) on
RECURSIVE WriteLoop(_, _, _)
WriteLoop(M, i, j) ==
  IF i = M.rows THEN << >>
  ELSE IF j = M.cols THEN WriteLoop(M, i + 1, 0)
  ELSE (IF find(M, i, j) THEN <<WrittenLine(M, i, j)>> ELSE << >>)
         \o WriteLoop(M, i, j + 1)

\* a writer that runs through the columns first
WrittenLines_colmajor(M) == WriteLoop_colmajor(M, 0, 0)

\* the lines writeSparseMatrix(matrix, out) writes
WrittenLines(M) == WriteLoop(M, 0, 0)

\* std::string::npos
npos == 0 - 1

\* row.find_first_of(",", pos), positions counted from 0
find_first_of(row, pos) ==
  LET hits == {p \in pos..(Len(row) - 1) : row[p + 1] = Comma}
  IN IF hits = {} THEN npos ELSE CHOOSE p \in hits : \A q \in hits : p <= q

\* row.substr(pos, n)
substr(row, pos, n) == SubSeq(row, pos + 1, IF pos + n < Len(row) THEN pos + n ELSE Len(row))

\* a loop that ends as soon as last_found reaches the end of the line
RECURSIVE DoWhile_until_end(_, _, _, _)
DoWhile_until_end(row, last_found, found0, entryLine) ==
  LET found == IF found0 = npos THEN Len(row) ELSE found0
      subs == substr(row, last_found, found - last_found)
      temp == Extract(subs)
  IN IF found + 1 < Len(row)
     THEN DoWhile_until_end(row, found + 1, find_first_of(row, found + 1), Append(entryLine, temp))
     ELSE Append(entryLine, temp)

\* do { ... } while (last_found != row.size() + 1): one pass for each field
RECURSIVE DoWhile(_, _, _, _)
DoWhile(row, last_found, found0, entryLine) ==
  LET found == IF found0 = npos THEN Len(row) ELSE found0
      subs == substr(row, last_found, found - last_found)
      temp == Extract(subs)
  IN IF found + 1 # Len(row) + 1
     THEN DoWhile(row, found + 1, find_first_of(row, found + 1), Append(entryLine, temp))
     ELSE Append(entryLine, temp)

\* a split that leaves out an empty field at the end of the line
SplitLine_until_end(row) == DoWhile_until_end(row, 0, find_first_of(row, 0), << >>)

\* entryLine after the loop over the line row
SplitLine(row) == DoWhile(row, 0, find_first_of(row, 0), << >>)

\* an assertion that lets more than three fields pass
AssertFields_at_least(entryLine) == Len(entryLine) >= 3

\* assert(entryLine.size()==3)
AssertFields(entryLine) == Len(entryLine) = 3

\* while (std::getline(in, row)) ...: the lines from the n-th on.  The process
\* ends at a line that fails the assertion; matrix.add is the matrix's own and
\* refuses a position outside of it.
RECURSIVE ReadLoop(_, _, _)
ReadLoop(M, text, n) ==
  IF n > Len(text)
  THEN [matrix |-> M, out |-> "ok", lines |-> Len(text)]
  ELSE LET entryLine == SplitLine(text[n])
       IN IF ~AssertFields(entryLine)
          THEN [matrix |-> M, out |-> "assertion_failed", lines |-> n - 1]
          ELSE IF <<entryLine[1], entryLine[2]>> \notin SparsePositions(M.rows, M.cols)
               THEN [matrix |-> M, out |-> "add_out_of_range", lines |-> n - 1]
               ELSE ReadLoop(add(M, entryLine[1], entryLine[2], entryLine[3]), text, n + 1)

\* what readSparseMatrix(M, in) leaves for the text in
ReadResult(M, text) == ReadLoop(clear(M), text, 1)

\* the values of the entries of a written matrix
IOValues == {0, 0 - MaxMag, Infinity}
Absent == Infinity + 1

\* the sparse matrix with the entries f gives
FromCells(rr, cc, f) ==
  [rows |-> rr, cols |-> cc,
   found |-> {p \in SparsePositions(rr, cc) : f[p] # Absent},
   val |-> [p \in SparsePositions(rr, cc) |-> IF f[p] = Absent THEN 0 ELSE f[p]]]

\* the texts of a field of a line somebody else wrote
FieldTexts == {<< >>, <<Decimal(1)>>, <<Scientific(7)>>}

\* the fields fs, joined by commas
RECURSIVE JoinFields(_)
JoinFields(fs) ==
  IF Len(fs) = 1 THEN fs[1] ELSE fs[1] \o <<Comma>> \o JoinFields(Tail(fs))

GivenLines == UNION {{JoinFields(fs) : fs \in [1..n -> FieldTexts]} : n \in 1..MaxFields}

\* the texts somebody else wrote: one line, or an entry (1, 1) and one line
GivenTexts ==
  {<<l>> : l \in GivenLines}
    \cup {<<<<Decimal(1), Comma, Decimal(1), Comma, Scientific(7)>>, l>> : l \in GivenLines}

IODims == 1..MaxIODim

\* A matrix with entries and nothing written, or an empty matrix and a text to
\* read; the matrix to read into has the shape of the first and stale entries.
InitIO ==
  /\ \E rr \in IODims, cc \in IODims :
       /\ \/ /\ \E f \in [SparsePositions(rr, cc) -> IOValues \cup {Absent}] :
                  /\ Cardinality({p \in SparsePositions(rr, cc) : f[p] # Absent}) <= MaxNonZeros
                  /\ matrix = FromCells(rr, cc, f)
             /\ stream = << >>
          \/ /\ matrix = EmptySparse(rr, cc)
             /\ stream \in GivenTexts
       /\ target = FromCells(rr, cc, [p \in SparsePositions(rr, cc) |-> 7])
  /\ io = [op |-> "none", out |-> "ok", lines |-> 0, written |-> FALSE]
  /\ IdleContainers /\ IdleTree /\ IdleWrap /\ IdleHelpers

\* writeSparseMatrix(matrix, out), for an out nothing was written to
writeSparseMatrix ==
  /\ io.out = "ok"
  /\ stream = << >>
  /\ stream' = stream \o WrittenLines(matrix)
  /\ io' = [io EXCEPT !.op = "write", !.written = TRUE]
  /\ UNCHANGED <<matrix, target>>
  /\ UNCHANGED OutsideIO

\* readSparseMatrix(target, in), for an in that holds the text
readSparseMatrix ==
  /\ io.out = "ok"
  /\ LET r == ReadResult(target, stream)
     IN /\ target' = r.matrix
        /\ io' = [io EXCEPT !.op = "read", !.out = r.out, !.lines = r.lines]
  /\ UNCHANGED <<matrix, stream>>
  /\ UNCHANGED OutsideIO

NextIO ==
  \/ writeSparseMatrix
  \/ readSparseMatrix

SpecIO == InitIO /\ [][NextIO]_iovars

(***************************************************************************)
(* Properties of the text format.                                          *)
(***************************************************************************)
\* w is v up to half a unit of the last digit the text of v keeps
WithinTolerance(v, w) == 2 * Abs(v - w) <= Pow10(Dropped(v))

\* C14 as stated: a matrix that was written and read back into a matrix of its
\* shape has an entry exactly where the source had one, with the value of the
\* source up to the tolerance of the digits written.
C14_RoundTrip ==
  (io.op = "read" /\ io.written) =>
    /\ io.out = "ok"
    /\ target.found = matrix.found
    /\ \A p \in matrix.found : WithinTolerance(matrix.val[p], target.val[p])

\* C14, amended: a matrix that was written and read back into a matrix of its
\* shape has an entry exactly where the source had one, with the value of the
\* source up to the tolerance of the digits written where that value is finite.
C14_RoundTripFinite ==
  (io.op = "read" /\ io.written) =>
    /\ io.out = "ok"
    /\ target.found = matrix.found
    /\ \A p \in matrix.found :
         matrix.val[p] # Infinity => WithinTolerance(matrix.val[p], target.val[p])

\* a matrix with a value the text rounds, an entry 0 and a position without
\* entry was written and read back
C14_Witness ==
  /\ io.op = "read" /\ io.written /\ io.out = "ok"
  /\ \E p \in matrix.found : matrix.val[p] = 0 - MaxMag /\ target.val[p] # matrix.val[p]
  /\ \E p \in matrix.found : matrix.val[p] = 0
  /\ matrix.found # SparsePositions(matrix.rows, matrix.cols)

\* C15: writeSparseMatrix writes the line "i,j,value" once for each position
\* (i, j) find reports and no other line, a line of row i before the lines of
\* the rows after it and, within a row, in the order of the columns; it leaves
\* the matrix as it was.
C15_WriterOrder ==
  [][io'.op = "write" =>
       LET LineOf(p) == <<Decimal(p[1]), Comma, Decimal(p[2]), Comma, Scientific(matrix.val[p])>>
           text == stream'
       IN /\ matrix' = matrix
          /\ Len(text) = Cardinality(matrix.found)
          /\ \A p \in matrix.found : \E n \in 1..Len(text) : text[n] = LineOf(p)
          /\ \A n \in 1..Len(text) : \E p \in matrix.found : text[n] = LineOf(p)
          /\ \A n \in 1..Len(text), n2 \in 1..Len(text) :
               n < n2 => \/ text[n][1].m < text[n2][1].m
                         \/ text[n][1].m = text[n2][1].m /\ text[n][3].m < text[n2][3].m]_iovars

\* a 2 x 2 matrix with the entries (0, 1) and (1, 0) was written
C15_Witness ==
  /\ io.op = "write"
  /\ matrix.rows = 2 /\ matrix.cols = 2
  /\ matrix.found = {<<0, 1>>, <<1, 0>>}
  /\ Len(stream) = 2

\* a line "row,col,value," : three fields that are not empty and a comma
TrailingEmptyField(row) ==
  \E fs \in [1..3 -> FieldTexts \ {<< >>}] : row = JoinFields(fs) \o <<Comma>>

\* what reading the lines before the n-th leaves
PrefixRead(n) == ReadResult(target, SubSeq(stream, 1, n - 1))

\* C16 as stated: a line "row,col,value," is accepted where the line
\* "row,col,value" is, and leaves the entries that line leaves.
C16_TrailingFieldTolerated ==
  \A n \in 1..Len(stream) :
    LET alt == ReadResult(target, [stream EXCEPT ![n] = SubSeq(@, 1, Len(@) - 1)])
    IN (io.op = "read" /\ TrailingEmptyField(stream[n]) /\ alt.out = "ok") =>
         io.out = "ok" /\ target = alt.matrix

\* C16, amended: a line "row,col,value," has four fields, the last one empty: it
\* fails the assertion, and the matrix holds the entries of the lines before it.
C16_TrailingFieldRejected ==
  \A n \in 1..Len(stream) :
    (io.op = "read" /\ TrailingEmptyField(stream[n]) /\ PrefixRead(n).out = "ok") =>
      /\ Len(SplitLine(stream[n])) = 4
      /\ io.out = "assertion_failed" /\ io.lines = n - 1
      /\ target = PrefixRead(n).matrix

\* the line "1,1,7" and a line "row,col,value," were read
C16_Witness ==
  /\ io.op = "read" /\ io.out = "assertion_failed" /\ io.lines = 1
  /\ Len(stream) = 2 /\ TrailingEmptyField(stream[2])
  /\ target.found = {<<1, 1>>} /\ target.val[<<1, 1>>] = 7

\* the number of fields of a line: one more than it has commas
FieldCount(row) == Cardinality({p \in 1..Len(row) : row[p] = Comma}) + 1

\* C17: a line that does not have 3 fields (an empty line has one) fails the
\* assertion, and no entry is added for it: the matrix holds the entries of the
\* lines before it.
C17_FieldCount ==
  \A n \in 1..Len(stream) :
    (io.op = "read" /\ FieldCount(stream[n]) # 3 /\ PrefixRead(n).out = "ok") =>
      /\ io.out = "assertion_failed" /\ io.lines = n - 1
      /\ target = PrefixRead(n).matrix

\* the line "1,1,7" and an empty line were read
C17_Witness ==
  /\ io.op = "read" /\ io.out = "assertion_failed" /\ io.lines = 1
  /\ Len(stream) = 2 /\ stream[2] = << >>
  /\ target.found = {<<1, 1>>} /\ target.val[<<1, 1>>] = 7

\* the sum of the values of those of the first n lines of text that name position p
RECURSIVE LineSum(_, _, _)
LineSum(text, n, p) ==
  IF n = 0
  THEN 0
  ELSE LET entryLine == SplitLine(text[n])
       IN LineSum(text, n - 1, p)
            + (IF <<entryLine[1], entryLine[2]>> = p THEN entryLine[3] ELSE 0)

\* C27: readSparseMatrix clears the matrix and adds the value of each line to
\* the entry the line names: after it every entry is the sum of the values of
\* the lines read that name its position, 0 for a position no line names,
\* whatever the matrix held before.
C27_ReadAccumulates ==
  io.op = "read" =>
    \A p \in SparsePositions(target.rows, target.cols) :
      /\ target.val[p] = LineSum(stream, io.lines, p)
      /\ find(target, p[1], p[2]) <=>
           \E n \in 1..io.lines : <<SplitLine(stream[n])[1], SplitLine(stream[n])[2]>> = p

\* two lines that name entry (1, 1) were read into a matrix that held 7 everywhere:
\* the entry is 14 and the others are 0
C27_Witness ==
  /\ io.op = "read" /\ io.out = "ok" /\ io.lines = 2 /\ ~io.written
  /\ target.val[<<1, 1>>] = 14
  /\ \A p \in SparsePositions(target.rows, target.cols) \ {<<1, 1>>} : target.val[p] = 0

(***************************************************************************)
(* ExtendedParameterTree (dune/stuff/common/parameter/tree.hh): the        *)
(* lookups get and getVector.  A std::string is a sequence of characters;  *)
(* the tree maps the keys it has to their values.                          *)
(***************************************************************************)
\* largest number of entries of a vector value
MaxEntries == 2
\* largest minSize asked for
MaxMinSize == 3
\* largest number of warnings written
MaxWarnings == 2

\* what a lookup leaves alone
OutsideTree == <<vars, iovars, wrapvars, helpervars>>

Keys == {"key", "other"}

\* BaseType::hasKey(_key)
hasKey(_key) == _key \in DOMAIN tree

\* Dune::Stuff::Common::tokenize< std::string >(msg, ";"): the texts between the
\* separators, empty ones included
RECURSIVE tokenize(_)
tokenize(msg) ==
  LET hits == {p \in 1..Len(msg) : msg[p] = ";"}
  IN IF hits = {}
     THEN <<msg>>
     ELSE LET p == CHOOSE q \in hits : \A r \in hits : q <= r
          IN <<SubSeq(msg, 1, p - 1)>> \o tokenize(SubSeq(msg, p + 1, Len(msg)))

\* boost::algorithm::trim_copy(str)
RECURSIVE trim_copy(_)
trim_copy(str) ==
  IF str # << >> /\ Head(str) = " " THEN trim_copy(Tail(str))
  ELSE IF str # << >> /\ str[Len(str)] = " " THEN trim_copy(SubSeq(str, 1, Len(str) - 1))
  ELSE str

DigitValue == [c \in {"1", "2"} |-> IF c = "1" THEN 1 ELSE 2]

\* the number a text of digits stands for
RECURSIVE DecimalValue(_)
DecimalValue(str) ==
  IF str = << >> THEN 0
  ELSE 10 * DecimalValue(SubSeq(str, 1, Len(str) - 1)) + DigitValue[str[Len(str)]]

\* Dune::Stuff::Common::fromString< int >(str): the number, for a text of digits;
\* the conversion fails for any other text
fromString(str) ==
  IF str # << >> /\ \A p \in 1..Len(str) : str[p] \in DOMAIN DigitValue
  THEN [ok |-> TRUE, v |-> DecimalValue(str)]
  ELSE [ok |-> FALSE, v |-> 0]

\* String::equal(str.substr(0, 1), "[") && String::equal(str.substr(str.size() - 1, 1), "]")
hasBrackets(str) ==
  /\ substr(str, 0, 1) = <<"[">>
  /\ substr(str, Len(str) - 1, 1) = <<"]">>

\* ret after the loop ret.push_back(fromString< T >(trim_copy(tokens[i])))
Converted(tokens) == [i \in 1..Len(tokens) |-> fromString(trim_copy(tokens[i]))]

\* getVector< int >(_key, minSize): how it ends and the vector it returns
getVectorResult(_key, minSize) ==
  IF ~hasKey(_key) THEN [out |-> "RangeError", vector |-> << >>]
  ELSE LET str == tree[_key]
           ret == IF hasBrackets(str)
                  THEN Converted(tokenize(substr(str, 1, Len(str) - 2)))
                  ELSE IF minSize = 1 THEN <<fromString(str)>> ELSE << >>
       IN IF ~hasBrackets(str) /\ minSize # 1 THEN [out |-> "RangeError", vector |-> << >>]
          ELSE IF \E i \in 1..Len(ret) : ~ret[i].ok THEN [out |-> "conversion_failed", vector |-> << >>]
          ELSE IF Len(ret) < minSize THEN [out |-> "RangeError", vector |-> << >>]
          ELSE [out |-> "ok", vector |-> [i \in 1..Len(ret) |-> ret[i].v]]

\* the record of a lookup
Lookup(op, _key, defaultValue, minSize, out, value, vector) ==
  [op |-> op, key |-> _key, defaultValue |-> defaultValue, minSize |-> minSize,
   out |-> out, value |-> value, vector |-> vector]

\* a get that answers a missing key with an empty value
get_lenient(_key) ==
  /\ lookup' = Lookup("get", _key, << >>, 0, "ok", IF hasKey(_key) THEN tree[_key] ELSE << >>, << >>)
  /\ UNCHANGED <<tree, cout>>
  /\ UNCHANGED OutsideTree

\* get< std::string >(_key)
get(_key) ==
  /\ IF ~hasKey(_key)
     THEN lookup' = Lookup("get", _key, << >>, 0, "RangeError", << >>, << >>)
     ELSE lookup' = Lookup("get", _key, << >>, 0, "ok", tree[_key], << >>)
  /\ UNCHANGED <<tree, cout>>
  /\ UNCHANGED OutsideTree

\* get(_key, defaultValue) for a std::string defaultValue: the warning, then
\* BaseType::get< std::string >(_key, defaultValue)
get_default(_key, defaultValue) ==
  /\ cout < MaxWarnings
  /\ cout' = IF ~hasKey(_key) THEN cout + 1 ELSE cout
  /\ lookup' = Lookup("get_default", _key, defaultValue, 0, "ok",
                      IF hasKey(_key) THEN tree[_key] ELSE defaultValue, << >>)
  /\ UNCHANGED tree
  /\ UNCHANGED OutsideTree

\* getVector< int >(_key, minSize)
getVector(_key, minSize) ==
  /\ LET r == getVectorResult(_key, minSize)
     IN lookup' = Lookup("getVector", _key, << >>, minSize, r.out, << >>, r.vector)
  /\ UNCHANGED <<tree, cout>>
  /\ UNCHANGED OutsideTree

\* the texts of the entries of a vector value, and the lists of them
EntryTexts == {<<"1">>, <<"2">>, <<"1", "2">>}
EntryLists == UNION {[1..n -> EntryTexts] : n \in 0..MaxEntries}
Separators == {<<";">>, <<";", " ">>}

\* the entries es with sep between them
RECURSIVE JoinEntries(_, _)
JoinEntries(es, sep) ==
  IF es = << >> THEN << >>
  ELSE IF Len(es) = 1 THEN es[1]
  ELSE es[1] \o sep \o JoinEntries(Tail(es), sep)

\* the values of the key: lists of entries with both brackets, one or none
TreeValues ==
  {pre \o JoinEntries(es, sep) \o post :
     pre \in {<< >>, <<"[">>}, post \in {<< >>, <<"]">>}, es \in EntryLists, sep \in Separators}

\* a tree with the key "other", and with or without the key "key"
InitTree ==
  /\ \/ tree = [k \in {"other"} |-> <<"1">>]
     \/ \E str \in TreeValues : tree = [k \in Keys |-> IF k = "key" THEN str ELSE <<"1">>]
  /\ cout = 0
  /\ lookup = Lookup("none", "key", << >>, 0, "ok", << >>, << >>)
  /\ IdleContainers /\ IdleIO /\ IdleWrap /\ IdleHelpers

NextTree ==
  \/ \E _key \in Keys : get(_key)
  \/ \E _key \in Keys, defaultValue \in {<<"2">>, <<"[">>} : get_default(_key, defaultValue)
  \/ \E _key \in Keys, minSize \in 0..MaxMinSize : getVector(_key, minSize)

SpecTree == InitTree /\ [][NextTree]_treevars

(***************************************************************************)
(* Properties of the lookups.                                              *)
(***************************************************************************)
\* C18: get< T >(key) raises a RangeError for a missing key and get(key,
\* default) returns the default after one warning; for a key the tree has both
\* return the stored value, without a warning; no lookup changes the tree.
C18_Get ==
  [][/\ tree' = tree
     /\ lookup'.op = "get" =>
          IF lookup'.key \in DOMAIN tree
          THEN lookup'.out = "ok" /\ lookup'.value = tree[lookup'.key]
          ELSE lookup'.out = "RangeError"
     /\ lookup'.op = "get_default" =>
          /\ lookup'.out = "ok"
          /\ IF lookup'.key \in DOMAIN tree
             THEN lookup'.value = tree[lookup'.key] /\ cout' = cout
             ELSE lookup'.value = lookup'.defaultValue /\ cout' = cout + 1]_treevars

\* get(key, default) has returned the default for a key the tree does not have
C18_Witness ==
  /\ lookup.op = "get_default" /\ lookup.key \notin DOMAIN tree
  /\ lookup.value = <<"2">> /\ cout = 1

\* the value has exactly one of the two brackets
OneBracket(str) ==
  str # << >> /\ ((Head(str) = "[") # (str[Len(str)] = "]"))

\* the text "[v0; v1; ...; vk]" of the entries es
VectorText(es, sep) == <<"[">> \o JoinEntries(es, sep) \o <<"]">>

\* C19: getVector< T >(key, minSize) returns the entries of a value
\* "[v0; v1; ...; vk]" in their order, raises a RangeError for a missing key, for
\* a value with exactly one of the two brackets and for a value with fewer than
\* minSize entries, and returns no vector shorter than minSize.
C19_GetVector ==
  [][lookup'.op = "getVector" =>
       LET _key == lookup'.key
           minSize == lookup'.minSize
       IN /\ _key \notin DOMAIN tree => lookup'.out = "RangeError"
          /\ (_key \in DOMAIN tree /\ OneBracket(tree[_key])) => lookup'.out = "RangeError"
          /\ \A es \in EntryLists \ {<< >>}, sep \in Separators :
               (_key \in DOMAIN tree /\ tree[_key] = VectorText(es, sep)) =>
                 IF Len(es) < minSize
                 THEN lookup'.out = "RangeError"
                 ELSE /\ lookup'.out = "ok"
                      /\ lookup'.vector = [i \in 1..Len(es) |-> DecimalValue(es[i])]
          /\ lookup'.out = "ok" => Len(lookup'.vector) >= minSize]_treevars

\* What holds of getVector< T >(key, minSize): as C19, with the RangeError for a
\* value with one bracket only where minSize is not 1.
GetVectorButOneBracket ==
  [][lookup'.op = "getVector" =>
       LET _key == lookup'.key
           minSize == lookup'.minSize
       IN /\ _key \notin DOMAIN tree => lookup'.out = "RangeError"
          /\ (_key \in DOMAIN tree /\ OneBracket(tree[_key]) /\ minSize # 1) =>
               lookup'.out = "RangeError"
          /\ \A es \in EntryLists \ {<< >>}, sep \in Separators :
               (_key \in DOMAIN tree /\ tree[_key] = VectorText(es, sep)) =>
                 IF Len(es) < minSize
                 THEN lookup'.out = "RangeError"
                 ELSE /\ lookup'.out = "ok"
                      /\ lookup'.vector = [i \in 1..Len(es) |-> DecimalValue(es[i])]
          /\ lookup'.out = "ok" => Len(lookup'.vector) >= minSize]_treevars

(***************************************************************************)
(* wraparound_array< T, N > (dune/stuff/common/misc.hh): an array whose    *)
(* operator[] is meant to let the index wrap around.                       *)
(***************************************************************************)
\* the N of the example in the documentation of the class
N == 4
\* largest magnitude of an index passed to operator[]
MaxIndex == 9

\* what operator[] leaves alone
OutsideWrap == <<vars, iovars, treevars, helpervars>>

\* the values of T
Elements == {0, 1}

\* operator[](std::size_t i): the position passed to BaseType::operator[]
real_index_size_t(i) == i % N

\* operator[](int i): real_index
real_index(i) == IF i < 0 THEN N - (((i * (0 - 1)) % N) + 1) ELSE i

\* The write a[i] = v through the reference BaseType::operator[](pos) returns.
\* Dune::array does not check pos: for pos >= N the store is outside of the
\* array, which either stops the process (a build with assertions) or leaves the
\* elements of the array as they are.
Store(op, i, pos, v) ==
  IF pos < N
  THEN /\ wa' = [wa EXCEPT ![pos] = v]
       /\ subscript' = [op |-> op, i |-> i, pos |-> pos, out |-> "ok"]
  ELSE /\ wa' = wa
       /\ \E out \in {"abort", "outside"} : subscript' = [op |-> op, i |-> i, pos |-> pos, out |-> out]

\* a[i] = v for a std::size_t i
subscript_size_t(i, v) ==
  /\ subscript.out # "abort"
  /\ Store("size_t", i, real_index_size_t(i), v)
  /\ UNCHANGED OutsideWrap

\* a[i] = v for an int i
subscript_int(i, v) ==
  /\ subscript.out # "abort"
  /\ Store("int", i, real_index(i), v)
  /\ UNCHANGED OutsideWrap

\* wraparound_array(const BaseType other)
InitWrap ==
  /\ wa \in [0..(N - 1) -> Elements]
  /\ subscript = [op |-> "none", i |-> 0, pos |-> 0, out |-> "ok"]
  /\ IdleContainers /\ IdleIO /\ IdleTree /\ IdleHelpers

NextWrap ==
  \/ \E i \in 0..MaxIndex, v \in Elements : subscript_size_t(i, v)
  \/ \E i \in (0 - MaxIndex)..MaxIndex, v \in Elements : subscript_int(i, v)

SpecWrap == InitWrap /\ [][NextWrap]_wrapvars

\* C20: operator[] with the index i, a std::size_t or an int, accesses the
\* element at position i mod N, a position of the array: a[4] is a[0] and a[-1]
\* is a[3] for N = 4.
C20_WrapAround ==
  subscript.op # "none" =>
    /\ subscript.pos = subscript.i % N
    /\ subscript.pos \in 0..(N - 1)
    /\ subscript.out = "ok"

\* What holds of operator[]: an index that is a std::size_t, or an int from 0 to
\* N - 1, accesses the element at position i mod N.
WrapAroundUnsigned ==
  (subscript.op = "size_t" \/ (subscript.op = "int" /\ subscript.i \in 0..(N - 1))) =>
    /\ subscript.pos = subscript.i % N
    /\ subscript.out = "ok"

(***************************************************************************)
(* The loop of readSparseMatrix that splits one line into its fields       *)
(* (stuff/matrix.hh), one step for each pass through its body.             *)
(***************************************************************************)
\* largest number of characters of a line that is split
MaxLineLen == 5

\* what the loop leaves alone
OutsideTok == <<vars, iovars, treevars, wrapvars, femvars, setvars, colorvars>>

\* the lines: every text of commas and numerals, the empty one included
TokRows == UNION {[1..n -> {Comma, Decimal(1)}] : n \in 0..MaxLineLen}

\* a loop that goes on at the comma it found
Advance_at_comma(found) == found

\* last_found = found+1
Advance(found) == found + 1

\* std::getline(in, row), then the initialisation of last_found, found and entryLine
getline ==
  /\ tok.pc = "getline"
  /\ tok' = [tok EXCEPT !.last_found = 0, !.found = find_first_of(tok.row, 0),
                        !.entryLine = << >>, !.pc = "do"]
  /\ UNCHANGED OutsideTok

\* one pass: do { ... } while (last_found != row.size()+1)
do_while ==
  /\ tok.pc = "do"
  /\ LET row == tok.row
         found == IF tok.found = npos THEN Len(row) ELSE tok.found
         subs == substr(row, tok.last_found, found - tok.last_found)
         last_found == Advance(found)
         temp == Extract(subs)
     IN tok' = [tok EXCEPT !.last_found = last_found,
                           !.entryLine = Append(@, temp),
                           !.found = find_first_of(row, last_found),
                           !.pc = IF last_found # Len(row) + 1 THEN "do" ELSE "done"]
  /\ UNCHANGED OutsideTok

InitTok ==
  /\ \E row \in TokRows :
       tok = [row |-> row, last_found |-> 0, found |-> 0, entryLine |-> << >>, pc |-> "getline"]
  /\ IdleContainers /\ IdleIO /\ IdleTree /\ IdleWrap /\ IdleFem /\ IdleSet /\ IdleColor

NextTok ==
  \/ getline
  \/ do_while

\* the loop is straight-line code: it goes on as long as it has a step to take
SpecTok == InitTok /\ [][NextTok]_<<tokvars, OutsideTok>> /\ WF_<<tokvars, OutsideTok>>(NextTok)

\* C28: the loop ends for every line: last_found grows in every pass and never
\* passes the position after the end of the line, the loop is left after the
\* field that ends at the end of the line, and entryLine then has one field
\* more than the line has commas.
C28_LoopTerminates ==
  /\ [][tok.pc = "do" => /\ tok'.last_found > tok.last_found
                         /\ tok'.last_found <= Len(tok.row) + 1]_tokvars
  /\ <>(tok.pc = "done")
  /\ [](tok.pc = "done" => /\ tok.last_found = Len(tok.row) + 1
                           /\ Len(tok.entryLine) = FieldCount(tok.row)
                           /\ tok.entryLine = SplitLine(tok.row))

\* the loop has ended for a line that starts with a comma, has two commas in a
\* row and ends with a comma
C28_Witness ==
  /\ tok.pc = "done"
  /\ tok.row = <<Comma, Decimal(1), Comma, Comma>>
  /\ Len(tok.entryLine) = 4

(***************************************************************************)
(* Dune::IdentityMatrix and Dune::setMatrixDiag (stuff/matrix.hh) and      *)
(* createCompressedSparsityPattern (la/container/pattern.hh).  The matrix  *)
(* is a SparseRowMatrix of dune-fem: its constructor takes the rows, the   *)
(* columns and the number of non-zeros of a row and gives a matrix whose   *)
(* entries are 0.                                                          *)
(***************************************************************************)
\* largest number of rows of a matrix of this part
MaxFemDim == 2
\* largest number of entries other than 0 of the matrix the helpers are given
MaxFemNonZeros == 1

\* what the helpers leave alone
OutsideFem == <<vars, iovars, treevars, wrapvars, setvars, tokvars, colorvars>>

\* MatrixType(rows, cols, nz)
MatrixType(rr, cc, nz) == [rows |-> rr, cols |-> cc, val |-> [p \in SparsePositions(rr, cc) |-> 0]]

\* MatrixType::set(row, col, val)
set(M, row, col, val) == [M EXCEPT !.val[<<row, col>>] = val]

\* matrix.matrix_get(row, col), matrix(row, col)
matrix_get(M, row, col) == M.val[<<row, col>>]

\* for (size_t i = 1; i < N; ++i) MatrixType::set(i, i, 1.0): the passes from i on
RECURSIVE IdentityLoop(_, _, _)
IdentityLoop(M, i, NN) ==
  IF i < NN THEN IdentityLoop(set(M, i, i, 1), i + 1, NN) ELSE M

\* for (row < matrix.rows()) { if (*it != 0.0) matrix.set(row, row, *it); ++it; }
RECURSIVE DiagLoop(_, _, _)
DiagLoop(M, diag, row) ==
  IF row < M.rows
  THEN DiagLoop(IF diag[row + 1] # 0 THEN set(M, row, row, diag[row + 1]) ELSE M, diag, row + 1)
  ELSE M

\* a row that keeps the columns whose value reaches the threshhold
CompressedRow_reached(M, row, uncompressedRowSet, threshhold) ==
  {col \in uncompressedRowSet : Abs(matrix_get(M, row, col)) >= threshhold}

\* for (auto col : uncompressedRowSet) if (std::abs(matrix.matrix_get(row, col)) > threshhold)
\*   compressedRowSet.insert(col)
CompressedRow(M, row, uncompressedRowSet, threshhold) ==
  {col \in uncompressedRowSet : Abs(matrix_get(M, row, col)) > threshhold}

\* the entries of a matrix, of a discrete function, and the threshholds
FemValues == {0, 1, 0 - 3}
DofValues == {0, 4}
Threshholds == {0 - 1, 0, 2}

\* no helper was called yet: each helper is called once, on the matrix as given
NoHelper == [op |-> "none", out |-> "ok", diag |-> << >>, threshhold |-> 0,
             uncompressedPattern |-> << >>, compressedPattern |-> << >>]

\* IdentityMatrix< MatrixType >(N)
IdentityMatrix(NN) ==
  /\ fem.op = "none"
  /\ sparse' = IdentityLoop(MatrixType(NN, NN, 1), 1, NN)
  /\ fem' = [NoHelper EXCEPT !.op = "IdentityMatrix"]
  /\ UNCHANGED OutsideFem

\* setMatrixDiag(matrix, diag), for a diag with one degree of freedom for each row
setMatrixDiag(diag) ==
  /\ fem.op = "none"
  /\ Len(diag) = sparse.rows
  /\ sparse' = DiagLoop(sparse, diag, 0)
  /\ fem' = [NoHelper EXCEPT !.op = "setMatrixDiag", !.diag = diag]
  /\ UNCHANGED OutsideFem

\* createCompressedSparsityPattern(uncompressedPattern, matrix, threshhold), for a
\* pattern of the matrix; the assertion ends the process for a negative threshhold
createCompressedSparsityPattern(uncompressedPattern, threshhold) ==
  /\ fem.op = "none"
  /\ Len(uncompressedPattern) = sparse.rows
  /\ IF threshhold < 0
     THEN fem' = [NoHelper EXCEPT !.op = "createCompressedSparsityPattern", !.out = "abort",
                                  !.threshhold = threshhold,
                                  !.uncompressedPattern = uncompressedPattern]
     ELSE fem' = [NoHelper EXCEPT !.op = "createCompressedSparsityPattern",
                                  !.threshhold = threshhold,
                                  !.uncompressedPattern = uncompressedPattern,
                                  !.compressedPattern =
                                     [row \in 1..Len(uncompressedPattern) |->
                                        CompressedRow(sparse, row - 1, uncompressedPattern[row], threshhold)]]
  /\ UNCHANGED sparse
  /\ UNCHANGED OutsideFem

FemDims == 1..MaxFemDim

\* a square matrix with any entries
InitFem ==
  /\ \E NN \in FemDims :
       \E f \in [SparsePositions(NN, NN) -> FemValues] :
         /\ Cardinality({p \in SparsePositions(NN, NN) : f[p] # 0}) <= MaxFemNonZeros
         /\ sparse = [rows |-> NN, cols |-> NN, val |-> f]
  /\ fem = NoHelper
  /\ IdleContainers /\ IdleIO /\ IdleTree /\ IdleWrap /\ IdleSet /\ IdleTok /\ IdleColor

NextFem ==
  \/ \E NN \in FemDims : IdentityMatrix(NN)
  \/ \E NN \in FemDims : \E diag \in [1..NN -> DofValues] : setMatrixDiag(diag)
  \/ \E NN \in FemDims : \E uncompressedPattern \in [1..NN -> SUBSET (0..(NN - 1))] :
       \E threshhold \in Threshholds : createCompressedSparsityPattern(uncompressedPattern, threshhold)

SpecFem == InitFem /\ [][NextFem]_femvars

\* C21: IdentityMatrix(N) is the N x N identity: 1 at (i, i) for every i from 0 to
\* N - 1, and 0 everywhere else.
C21_Identity ==
  fem.op = "IdentityMatrix" =>
    /\ sparse.rows = sparse.cols
    /\ \A p \in SparsePositions(sparse.rows, sparse.cols) :
         matrix_get(sparse, p[1], p[2]) = IF p[1] = p[2] THEN 1 ELSE 0

\* What holds of IdentityMatrix(N): the matrix is N x N, 0 off the diagonal and at
\* (0, 0), and 1 at (i, i) for i from 1 on.
IdentityButFirst ==
  fem.op = "IdentityMatrix" =>
    /\ sparse.rows = sparse.cols
    /\ \A p \in SparsePositions(sparse.rows, sparse.cols) :
         matrix_get(sparse, p[1], p[2]) = IF p[1] = p[2] /\ p[1] >= 1 THEN 1 ELSE 0

\* C24: after setMatrixDiag(matrix, diag) the entry (row, row) is the degree of
\* freedom of diag for that row, for every row, also where it is 0 and the entry
\* was not; the entries off the diagonal are as before.
C24_SetMatrixDiag ==
  [][fem'.op = "setMatrixDiag" =>
       \A p \in SparsePositions(sparse.rows, sparse.cols) :
         matrix_get(sparse', p[1], p[2]) = IF p[1] = p[2] THEN fem'.diag[p[1] + 1] ELSE matrix_get(sparse, p[1], p[2])]_femvars

\* What holds of setMatrixDiag: an entry (row, row) is set where the degree of
\* freedom is not 0, and every other entry is as before.
SetMatrixDiagNonZero ==
  [][fem'.op = "setMatrixDiag" =>
       \A p \in SparsePositions(sparse.rows, sparse.cols) :
         matrix_get(sparse', p[1], p[2]) = IF p[1] = p[2] /\ fem'.diag[p[1] + 1] # 0
                                    THEN fem'.diag[p[1] + 1]
                                    ELSE matrix_get(sparse, p[1], p[2])]_femvars

\* C25: the pattern createCompressedSparsityPattern returns has the rows of the
\* uncompressed one; a column is in a row of it exactly if it is in that row of
\* the uncompressed pattern and the entry of the matrix there is larger in
\* magnitude than the threshhold.  The matrix is as before.
C25_Compressed ==
  [][(fem'.op = "createCompressedSparsityPattern" /\ fem'.out = "ok") =>
       /\ Len(fem'.compressedPattern) = Len(fem'.uncompressedPattern)
       /\ \A row \in 1..sparse.rows :
            /\ \A col \in 0..(sparse.cols - 1) :
                 col \in fem'.compressedPattern[row] <=>
                   /\ col \in fem'.uncompressedPattern[row]
                   /\ Abs(matrix_get(sparse, row - 1, col)) > fem'.threshhold
            /\ fem'.compressedPattern[row] \subseteq fem'.uncompressedPattern[row]
       /\ sparse' = sparse]_femvars

\* a pattern was compressed with threshhold 0 for a matrix that holds a 0 at a
\* position of the pattern and a negative entry at another
C25_Witness ==
  /\ fem.op = "createCompressedSparsityPattern" /\ fem.out = "ok" /\ fem.threshhold = 0
  /\ \E row \in 1..sparse.rows :
       /\ fem.compressedPattern[row] # fem.uncompressedPattern[row]
       /\ \E col \in fem.compressedPattern[row] : matrix_get(sparse, row - 1, col) < 0

(***************************************************************************)
(* RestrictProlongOperatorSet (dune/stuff/fem/restrict_prolong.hh): a      *)
(* std::set of pointers to operators; the calls of the interface are       *)
(* forwarded to each element of the set.                                   *)
(***************************************************************************)
\* largest number of calls made on the set
MaxCalls == 4

\* what a call on the set leaves alone
OutsideSet == <<vars, iovars, treevars, wrapvars, femvars, tokvars, colorvars>>

\* the operators the caller has pointers to, and the arguments of a forwarded call
Operators == {"p", "q"}
CallArgs == {1, 2}

\* a call on the set is recorded with its argument and what it returned
Logged(op, arg, ret) ==
  /\ Len(rplog) < MaxCalls
  /\ rplog' = Append(rplog, [op |-> op, arg |-> arg, ret |-> ret])
  /\ UNCHANGED OutsideSet

\* add(rpair): pair_set_.insert(rpair)
add_operator(rpair) ==
  /\ pair_set_' = pair_set_ \cup {rpair}
  /\ UNCHANGED received
  /\ Logged("add", rpair, TRUE)

\* a remove that finds the operator and erases nothing
remove_no_erase(rpair) ==
  /\ UNCHANGED <<pair_set_, received>>
  /\ Logged("remove", rpair, rpair \in pair_set_)

\* remove(rpair): it = pair_set_.find(rpair); if (found) pair_set_.erase(it); return found
remove(rpair) ==
  LET found == rpair \in pair_set_
  IN /\ pair_set_' = IF found THEN pair_set_ \ {rpair} ELSE pair_set_
     /\ UNCHANGED received
     /\ Logged("remove", rpair, found)

\* for (el : pair_set_) el->f(args)
Forward(f, args) ==
  /\ received' = [el \in Operators |->
                    IF el \in pair_set_ THEN Append(received[el], [f |-> f, args |-> args])
                    ELSE received[el]]
  /\ UNCHANGED pair_set_
  /\ Logged(f, args, TRUE)

setFatherChildWeight(val) == Forward("setFatherChildWeight", val)
restrictLocal(args) == Forward("restrictLocal", args)
prolongLocal(args) == Forward("prolongLocal", args)
addToList(comm) == Forward("addToList", comm)

\* RestrictProlongOperatorSet(): pair_set_(SetType())
InitSet ==
  /\ pair_set_ = {}
  /\ received = [el \in Operators |-> << >>]
  /\ rplog = << >>
  /\ IdleContainers /\ IdleIO /\ IdleTree /\ IdleWrap /\ IdleFem /\ IdleTok /\ IdleColor

NextSet ==
  \/ \E rpair \in Operators : add_operator(rpair)
  \/ \E rpair \in Operators : remove(rpair)
  \/ \E val \in CallArgs : setFatherChildWeight(val)
  \/ \E args \in CallArgs : restrictLocal(args)
  \/ \E args \in CallArgs : prolongLocal(args)
  \/ \E comm \in CallArgs : addToList(comm)

SpecSet == InitSet /\ [][NextSet]_setvars

\* the call of the step
ThisCall == rplog'[Len(rplog')]
Forwarded == {"setFatherChildWeight", "restrictLocal", "prolongLocal", "addToList"}

\* rpair was added, and not removed since it was last added
AddedSince(log, rpair) ==
  \E i \in 1..Len(log) :
    /\ log[i].op = "add" /\ log[i].arg = rpair
    /\ \A j \in (i + 1)..Len(log) : ~(log[j].op = "remove" /\ log[j].arg = rpair)

\* C22: after any calls of add and remove, a call of setFatherChildWeight,
\* restrictLocal, prolongLocal or addToList reaches every operator that was added
\* and not removed since, once and with the arguments of the call, and no other
\* operator; it leaves the set as it is.  add and remove reach no operator.
C22_Forwarded ==
  [][/\ ThisCall.op \in Forwarded =>
          /\ \A el \in Operators :
               received'[el] = IF AddedSince(rplog, el)
                               THEN Append(received[el], [f |-> ThisCall.op, args |-> ThisCall.arg])
                               ELSE received[el]
          /\ pair_set_' = pair_set_
     /\ ThisCall.op \notin Forwarded => received' = received]_setvars

\* p and q were added, p was removed, and a call was forwarded: q has received
\* it and p has not
C22_Witness ==
  /\ Len(rplog) = 4 /\ rplog[4].op = "restrictLocal" /\ rplog[4].arg = 2
  /\ rplog[3].op = "remove" /\ rplog[3].arg = "p" /\ rplog[3].ret
  /\ received["q"] = <<[f |-> "restrictLocal", args |-> 2]>>
  /\ received["p"] = << >>

\* the number of instances of rpair a collection that keeps one for each add holds
RECURSIVE InstanceCount(_, _, _)
InstanceCount(log, n, rpair) ==
  IF n = 0
  THEN 0
  ELSE LET before == InstanceCount(log, n - 1, rpair)
       IN IF log[n].op = "add" /\ log[n].arg = rpair THEN before + 1
          ELSE IF log[n].op = "remove" /\ log[n].arg = rpair /\ before > 0 THEN before - 1
          ELSE before

\* C23: remove(rpair) returns true exactly if rpair is in the set, and changes
\* nothing if it is not; it removes one instance: an rpair that was added k times
\* is in the set until it was removed k times.
C23_RemoveOneInstance ==
  [][ThisCall.op = "remove" =>
       /\ ThisCall.ret <=> ThisCall.arg \in pair_set_
       /\ ~ThisCall.ret => pair_set_' = pair_set_
       /\ ThisCall.arg \in pair_set_' <=> InstanceCount(rplog', Len(rplog'), ThisCall.arg) > 0]_setvars

\* What holds of remove: it returns whether rpair was in the set, and rpair is
\* not in the set after it, however often it was added; the other operators
\* stay, and no operator is called.
RemoveFromSet ==
  [][ThisCall.op = "remove" =>
       /\ ThisCall.ret <=> ThisCall.arg \in pair_set_
       /\ pair_set_' = pair_set_ \ {ThisCall.arg}
       /\ received' = received]_setvars

(***************************************************************************)
(* highlightSearchString and highlightTemplate (dune/stuff/common/         *)
(* color.cc), one step for each pass through the loop.  A std::string is a *)
(* sequence of characters; positions count from 0.                         *)
(***************************************************************************)
\* largest number of characters of str
MaxStrLen == 4
\* largest number of characters of substr
MaxSubLen == 2
\* largest number of passes through the loop of highlightSearchString
MaxPasses == 7
\* int maxlevel = 10000, the value of the declaration
DefaultMaxLevel == 10000

\* what the two functions leave alone
OutsideColor == <<vars, iovars, treevars, wrapvars, femvars, setvars, tokvars>>

\* A character of the text, and the run of digits std::to_string(n) gives, which
\* stands for one character.
Ch(c) == [c |-> c, n |-> 0]
Num(n) == [c |-> "number", n |-> n]

\* "\033[38;5;" + std::to_string(n) + "m"
dummy(n) == <<Ch("\\033[38;5;"), Num(n), Ch("m")>>

\* str.find(substr, pos)
str_find(str, substr_, pos) ==
  LET hits == {q \in pos..(Len(str) - Len(substr_)) : SubSeq(str, q + 1, q + Len(substr_)) = substr_}
  IN IF hits = {} THEN npos ELSE CHOOSE q \in hits : \A r \in hits : q <= r

\* str.insert(pos, s)
insert(str, pos, s) == SubSeq(str, 1, pos) \o s \o SubSeq(str, pos + 1, Len(str))

\* str.erase(pos, n) for pos <= str.size(); n is a size_t, and one below 0 here
\* is a huge one there
erase(str, pos, n) ==
  IF n < 0 \/ pos + n >= Len(str)
  THEN SubSeq(str, 1, pos)
  ELSE SubSeq(str, 1, pos) \o SubSeq(str, pos + n + 1, Len(str))

\* templateColorChooser(i) of color.hh: i % 256, with the sign of i
templateColorChooser(i) == IF i < 0 THEN 0 - ((0 - i) % 256) ELSE i % 256

\* long index = long(str.find(substr, 0))
highlightSearchString ==
  /\ search.pc = "call"
  /\ search' = [search EXCEPT !.index = str_find(search.str, search.substr, 0), !.pc = "while"]
  /\ UNCHANGED templ
  /\ UNCHANGED OutsideColor

\* while (index != long(std::string::npos)) { ... }: one pass, or return str
search_while ==
  /\ search.pc = "while"
  /\ search.passes < MaxPasses
  /\ IF search.index # npos
     THEN LET dummy1 == dummy(search.colornr % 256)
              dummy2 == dummy(0)
              str1 == insert(search.str, search.index, dummy1)
              str2 == insert(str1, search.index + Len(search.substr) + Len(dummy1), dummy2)
          IN search' = [search EXCEPT
                          !.str = str2,
                          !.index = str_find(str2, search.substr,
                                             search.index + Len(dummy1) + Len(search.substr) + Len(dummy2)),
                          !.passes = @ + 1]
     ELSE search' = [search EXCEPT !.pc = "return"]
  /\ UNCHANGED templ
  /\ UNCHANGED OutsideColor

\* if (maxlevel < 0) maxlevel = 0; startindex = 0; level = 0; i = 0
highlightTemplate ==
  /\ templ.pc = "call"
  /\ templ' = [templ EXCEPT !.maxlevel = IF @ < 0 THEN 0 ELSE @,
                            !.startindex = 0, !.level = 0, !.i = 0, !.pc = "for"]
  /\ UNCHANGED search
  /\ UNCHANGED OutsideColor

\* for (size_t i = 0; i < str.size(); i++) { ... }: one pass with its i++, or
\* str += "\033[38;5;0m"; return str
template_for ==
  /\ templ.pc = "for"
  /\ LET t == templ
     IN IF t.i < Len(t.str)
        THEN IF t.str[t.i + 1] = Ch("<")
             THEN LET level == t.level + 1
                      d == dummy(templateColorChooser(level))
                      i == t.i + Len(d)
                  IN templ' = [t EXCEPT !.level = level,
                                        !.str = insert(t.str, t.i, d),
                                        !.startindex = IF level = t.maxlevel THEN i + 1 ELSE @,
                                        !.i = i + 1]
             ELSE IF t.str[t.i + 1] = Ch(">")
             THEN LET level == t.level - 1
                      d == dummy(templateColorChooser(level))
                      i == t.i + 1
                      str1 == insert(t.str, i, d)
                  IN IF level + 1 = t.maxlevel
                     THEN LET size == i - t.startindex - 1
                          IN templ' = [t EXCEPT !.level = level,
                                                !.str = erase(str1, t.startindex, size),
                                                !.i = t.startindex + 1 + Len(d) + 1]
                     ELSE templ' = [t EXCEPT !.level = level, !.str = str1, !.i = i + Len(d) + 1]
             ELSE templ' = [t EXCEPT !.i = @ + 1]
        ELSE templ' = [t EXCEPT !.str = @ \o dummy(0), !.pc = "return"]
  /\ UNCHANGED search
  /\ UNCHANGED OutsideColor

\* the texts of up to n of the characters cs
Texts(cs, n) == UNION {[1..k -> {Ch(c) : c \in cs}] : k \in 0..n}

NoSearch == [str |-> << >>, substr |-> << >>, colornr |-> 0, index |-> 0, passes |-> 0,
             pc |-> "idle", str0 |-> << >>]
NoTemplate == [str |-> << >>, maxlevel |-> 0, startindex |-> 0, level |-> 0, i |-> 0,
               pc |-> "idle", str0 |-> << >>]

\* one of the two functions is called, with its arguments
InitColor ==
  /\ \/ /\ \E str \in Texts({"a", "b"}, MaxStrLen), substr_ \in Texts({"a", "b"}, MaxSubLen),
              colornr \in {0, 258} :
              search = [NoSearch EXCEPT !.str = str, !.str0 = str, !.substr = substr_,
                                        !.colornr = colornr, !.pc = "call"]
        /\ templ = NoTemplate
     \/ /\ \E str \in Texts({"a", "<", ">"}, MaxStrLen), maxlevel \in {0 - 1, 1, 2, DefaultMaxLevel} :
              templ = [NoTemplate EXCEPT !.str = str, !.str0 = str, !.maxlevel = maxlevel,
                                         !.pc = "call"]
        /\ search = NoSearch
  /\ IdleContainers /\ IdleIO /\ IdleTree /\ IdleWrap /\ IdleFem /\ IdleSet /\ IdleTok

NextColor ==
  \/ highlightSearchString
  \/ search_while
  \/ highlightTemplate
  \/ template_for

SpecColor == InitColor /\ [][NextColor]_colorvars

\* the text without the characters of the escapes
Strip(str) == SelectSeq(str, LAMBDA ch : ch.c \in {"a", "b", "<", ">"})

\* an escape starts at position k of str, counted from 1
EscapeAt(str, k) ==
  /\ k >= 1 /\ k + 2 <= Len(str)
  /\ str[k].c = "\\033[38;5;" /\ str[k + 1].c = "number" /\ str[k + 2].c = "m"

\* str from position pos on, with an escape for colornr before and a reset after
\* each occurrence of the text sub, the occurrences taken from left to right
RECURSIVE Wrapped(_, _, _, _)
Wrapped(str, sub, colornr, pos) ==
  IF pos >= Len(str)
  THEN << >>
  ELSE IF pos + Len(sub) <= Len(str) /\ SubSeq(str, pos + 1, pos + Len(sub)) = sub
       THEN dummy(colornr % 256) \o sub \o dummy(0) \o Wrapped(str, sub, colornr, pos + Len(sub))
       ELSE <<str[pos + 1]>> \o Wrapped(str, sub, colornr, pos + 1)

\* C29: highlightSearchString ends for every str and substr, the empty substr
\* included: it makes no more passes than str has positions, and what it
\* returns is str with each occurrence of substr, from left to right, between
\* an escape for the colour and a reset; without the escapes it is str.
C29_HighlightSearch ==
  search.pc # "idle" =>
    /\ search.passes <= Len(search.str0) + 1
    /\ search.pc = "return" =>
         /\ Strip(search.str) = search.str0
         /\ search.substr # << >> =>
              search.str = Wrapped(search.str0, search.substr, search.colornr, 0)

\* What holds of highlightSearchString: for a substr that is not empty it makes
\* one pass for each occurrence and returns str with the occurrences wrapped;
\* for the empty substr the index it tests is a position every time, so the
\* loop is not left.
HighlightSearchNonEmpty ==
  /\ (search.pc # "idle" /\ search.substr # << >>) =>
       /\ search.passes <= Len(search.str0)
       /\ search.pc = "return" =>
            /\ Strip(search.str) = search.str0
            /\ search.str = Wrapped(search.str0, search.substr, search.colornr, 0)
  /\ (search.pc = "while" /\ search.substr = << >>) =>
       /\ search.index # npos
       /\ search.index <= Len(search.str)

\* the nesting level after the first n characters of str, and the largest one
RECURSIVE LevelAt(_, _)
LevelAt(str, n) ==
  IF n = 0 THEN 0
  ELSE LevelAt(str, n - 1) + (IF str[n] = Ch("<") THEN 1 ELSE IF str[n] = Ch(">") THEN 0 - 1 ELSE 0)

Depth(str) == CHOOSE d \in 0..Len(str) :
                /\ \A n \in 0..Len(str) : LevelAt(str, n) <= d
                /\ \E n \in 0..Len(str) : LevelAt(str, n) = d

Balanced(str) == LevelAt(str, Len(str)) = 0 /\ \A n \in 0..Len(str) : LevelAt(str, n) >= 0

\* C30: for a maxlevel above the nesting depth of str, highlightTemplate looks at
\* every '<' and '>', also one that follows a '>': what it returns has an escape
\* right before each '<' and right after each '>', the level is 0 again at the
\* end of a balanced str, and without the escapes the text is str.
C30_HighlightTemplate ==
  (templ.pc = "return" /\ templ.maxlevel > Depth(templ.str0)) =>
    /\ \A k \in 1..Len(templ.str) :
         /\ templ.str[k] = Ch("<") => EscapeAt(templ.str, k - 3)
         /\ templ.str[k] = Ch(">") => EscapeAt(templ.str, k + 1)
    /\ Balanced(templ.str0) => templ.level = 0
    /\ Strip(templ.str) = templ.str0

\* What holds of highlightTemplate for a maxlevel above the nesting depth: no
\* character of str is removed or moved, and a str in which no bracket follows a
\* '>' directly has its escapes and ends at the level its brackets give.
HighlightTemplateApart ==
  (templ.pc = "return" /\ templ.maxlevel > Depth(templ.str0)) =>
    /\ Strip(templ.str) = templ.str0
    /\ (\A n \in 1..(Len(templ.str0) - 1) :
          templ.str0[n] = Ch(">") => templ.str0[n + 1] = Ch("a")) =>
         /\ \A k \in 1..Len(templ.str) :
              /\ templ.str[k] = Ch("<") => EscapeAt(templ.str, k - 3)
              /\ templ.str[k] = Ch(">") => EscapeAt(templ.str, k + 1)
         /\ templ.level = LevelAt(templ.str0, Len(templ.str0))
====
